---- MODULE Spec2Model ----
(***************************************************************************)
(* Surf scan orchestration (packages/backend/src: the API layer and the    *)
(* scanner): the registry of scans, the concurrency-limited launcher       *)
(* processDomains, the per-domain task processDomainAsync/processDomain,   *)
(* cancelScan, getScanStatus and getScanResults.                           *)
(*                                                                         *)
(* One step of the model is one run-to-completion job of the JavaScript    *)
(* event loop: a call of an API function, or the continuation of an async  *)
(* function after one of its awaits (probeDomain, resolveHost, the 50 ms   *)
(* timer, the return of processDomain, Promise.all).                       *)
(***************************************************************************)
EXTENDS Integers, Sequences, FiniteSets, TLC

VARIABLES
  activeScans,  \* the registry: scanId -> [status, cancelled]
  procs,        \* scanId -> the frame of processDomains (its locals and position)
  tasks,        \* scanId -> one processDomainAsync frame per entry of the domain list
  completions,  \* scanId -> the ScanResults onComplete has been called with, in order
  idPool,       \* the scan ids startScanAPI can still generate
  lastCall,     \* the API call made by the last step and what it returned
  lastProgress  \* the snapshots the last step passed to onProgress, in order

vars == <<activeScans, procs, tasks, completions, idPool, lastCall, lastProgress>>

----------------------------------------------------------------------------
(* Bounds and input sets *)

MaxLen == 3
MaxConcurrency == 2
\* the longest domain list in the specification of the whole API
MaxApiLen == 2

Domains == {"a.example", "b.example"}

PrivateIP == "10.1.2.3"
PublicIP == "93.184.216.34"

\* what resolveHost may answer
IpLists == { <<>>, <<PublicIP>>, <<PublicIP, PrivateIP>> }

\* how the await of probeDomain ends in processDomain: probeResult.success is
\* true or false, or an exception is raised in the task
ProbeOutcomes == {"success", "failure", "fault"}

\* why a probe failed, as the error text of its result tells
FailureKinds == {"timeout", "connection", "other"}

\* the export functions: which list they write
DownloadLists == {"internal", "external", "combined"}

\* the lists a caller may pass: every list up to MaxLen, up to renaming of the domains
DomainLists ==
  { d \in UNION { [1..n -> Domains] : n \in 0..MaxLen } :
      Len(d) > 0 => d[1] = "a.example" }

Timeouts == {0, 3000}

Concurrencies == 0..MaxConcurrency

\* the ids a caller may pass to the API; "scan-0" is never generated
CallerIds == {"scan-0", "scan-1"}

None == "undefined"

\* a return value that may be undefined
Undefined == <<>>
Value(v) == <<v>>

NoCall == [op |-> "none"]

\* what the awaited probeDomain call gives: a result record or an exception
Thrown == [thrown |-> TRUE]
ProbeResults ==
  { [success |-> TRUE, error |-> None] }
    \cup { [success |-> FALSE, error |-> k] : k \in FailureKinds }
    \cup { Thrown }

----------------------------------------------------------------------------
(* Collaborator: ip.js *)

isPrivateIP(ip) == ip = PrivateIP

----------------------------------------------------------------------------
(* JavaScript containers: Array, insertion-ordered Set and Map *)

RECURSIVE SeqWithout(_, _)
SeqWithout(s, x) ==
  IF s = <<>> THEN <<>>
  ELSE IF Head(s) = x THEN SeqWithout(Tail(s), x)
  ELSE <<Head(s)>> \o SeqWithout(Tail(s), x)

Elems(s) == { s[i] : i \in 1..Len(s) }

\* Set.prototype.add / delete on an insertion-ordered Set
SetAdd(s, x) == IF x \in Elems(s) THEN s ELSE Append(s, x)
SetDelete_keeps(s, x) == s

SetDelete(s, x) == SeqWithout(s, x)

\* Map: a sequence of <<key, value>> in insertion order
Keys(m) == [i \in 1..Len(m) |-> m[i][1]]
MapHas(m, k) == \E i \in 1..Len(m) : m[i][1] = k
MapGet(m, k) == m[CHOOSE i \in 1..Len(m) : m[i][1] = k][2]
\* Map.prototype.set: an existing key keeps its position and takes the new value
MapSet_moveToEnd(m, k, v) ==
  Append(SelectSeq(m, LAMBDA e : e[1] # k), <<k, v>>)

\* Map.set: a new key goes last, a key already present keeps its place
MapSet(m, k, v) ==
  IF MapHas(m, k)
  THEN [i \in 1..Len(m) |-> IF m[i][1] = k THEN <<k, v>> ELSE m[i]]
  ELSE Append(m, <<k, v>>)

----------------------------------------------------------------------------
(* scanner: one scan as a record c                                         *)
(*   status, cancelled            the ScanState                            *)
(*   pc, domains, concurrency, i, processing, completed                    *)
(*                                the frame of processDomains              *)
(*   tasks                        the processDomainAsync frames            *)
(*   progress, completions        the calls of onProgress in this step and *)
(*                                of onComplete since the scan started     *)

\* startScan: the ScanStatus and ScanState literals
NewStatus(scanId, domains) ==
  [ scanId        |-> scanId,
    total         |-> Len(domains),
    completed     |-> 0,
    current       |-> <<>>,
    internalHosts |-> <<>>,
    externalHosts |-> <<>>,
    failedHosts   |-> <<>>,
    isComplete    |-> FALSE ]

\* resolved: resolveHost has returned to the task, with ips
NewTask == [pc |-> "pending", probeResult |-> None, resolved |-> FALSE, ips |-> <<>>]

NewScan(scanId, domains, concurrency) ==
  [ status        |-> NewStatus(scanId, domains),
    cancelled     |-> FALSE,
    pc            |-> "loop",
    domains       |-> domains,
    concurrency   |-> concurrency,
    i             |-> 1,
    processing    |-> <<>>,
    completed     |-> 0,
    tasks         |-> [t \in 1..Len(domains) |-> NewTask],
    progress      |-> <<>>,
    completions   |-> <<>> ]

\* { ...state.status }: a new object with the values of scanId, total,
\* completed and isComplete and the array current is bound to at that moment
\* (current is replaced, never changed in place); internalHosts, externalHosts
\* and failedHosts of the new object are the Map and Array objects of the live
\* status, which SnapshotView reads through the registry
Snapshot(status) ==
  [ scanId     |-> status.scanId,
    completed  |-> status.completed,
    total      |-> status.total,
    current    |-> status.current,
    isComplete |-> status.isComplete ]

\* what the holder of snapshot s reads in its fields when the registry is reg
SnapshotView(s, reg) ==
  [ scanId        |-> s.scanId,
    completed     |-> s.completed,
    total         |-> s.total,
    current       |-> s.current,
    isComplete    |-> s.isComplete,
    internalHosts |-> reg[s.scanId].status.internalHosts,
    externalHosts |-> reg[s.scanId].status.externalHosts,
    failedHosts   |-> reg[s.scanId].status.failedHosts ]

OnProgress(c) == [c EXCEPT !.progress = Append(@, Snapshot(c.status))]

RECURSIVE Combined_dedup(_, _)
Combined_dedup(internal, external) ==
  IF external = <<>> THEN internal
  ELSE Combined_dedup(SetAdd(internal, Head(external)), Tail(external))

\* the combined list of a ScanResults
Combined(internal, external) == internal \o external

\* the ScanResults literal of getScanResults, cancelScan and processDomains
MakeResults(status) ==
  [ internal     |-> Keys(status.internalHosts),
    external     |-> Keys(status.externalHosts),
    combined     |-> Combined(Keys(status.internalHosts), Keys(status.externalHosts)),
    totalDomains |-> status.total ]

ResultsView_live(r, status) == MakeResults(status)

\* what the holder of a ScanResults reads later: its lists are arrays of
\* their own, made by Array.from and the spread, not the maps of the status
ResultsView(r, status) == r

OnComplete(c, results) == [c EXCEPT !.completions = Append(@, results)]

IsCancelled_never(c) == FALSE

\* the test of state.cancelled by the launcher and by a starting task
IsCancelled(c) == c.cancelled

\* processDomainAsync(domain) up to its first await: the call of probeDomain
LaunchTask(c, t) ==
  IF IsCancelled(c)
  THEN [c EXCEPT !.tasks[t].pc = "settled"]
  ELSE LET domain == c.domains[t]
           c1 == [c EXCEPT !.processing = SetAdd(@, domain)]
           c2 == [c1 EXCEPT !.status.current = c1.processing]
           c3 == OnProgress(c2)
       IN  [c3 EXCEPT !.tasks[t].pc = "probing"]

\* the guard of the while loop that waits for a free slot
AtLimit_offByOne(c) == Len(c.processing) > c.concurrency /\ ~IsCancelled(c)

AtLimit(c) == Len(c.processing) >= c.concurrency /\ ~IsCancelled(c)

\* the for loop of processDomains, run until it awaits
RECURSIVE LaunchLoop(_)
LaunchLoop(c) ==
  IF c.i > Len(c.domains) THEN [c EXCEPT !.pc = "awaitAll"]
  ELSE IF IsCancelled(c) THEN [c EXCEPT !.pc = "awaitAll"]
  ELSE IF AtLimit(c) THEN [c EXCEPT !.pc = "sleep"]
  ELSE LaunchLoop([LaunchTask(c, c.i) EXCEPT !.i = @ + 1])

Outcome_byKind(result) ==
  IF result = Thrown THEN "fault"
  ELSE IF result.success \/ result.error = "timeout" THEN "success"
  ELSE "failure"

\* processDomain: what it reads of the probe result
Outcome(result) ==
  IF result = Thrown THEN "fault"
  ELSE IF result.success THEN "success"
  ELSE "failure"

\* processDomainAsync up to the call of onProgress when the callback raises:
\* the call is before the try block, so the promise of the task is rejected
\* with its domain left in processing and no probe issued
LaunchTaskThrows(c, t) ==
  LET domain == c.domains[t]
      c1 == [c EXCEPT !.processing = SetAdd(@, domain)]
      c2 == [c1 EXCEPT !.status.current = c1.processing]
      c3 == OnProgress(c2)
  IN  [c3 EXCEPT !.tasks[t].pc = "rejected"]

\* the for loop of processDomains when the callback raises in the tasks it
\* starts: the rejected promises are pushed and the loop goes on
RECURSIVE LaunchLoopThrows(_)
LaunchLoopThrows(c) ==
  IF c.i > Len(c.domains) THEN [c EXCEPT !.pc = "awaitAll"]
  ELSE IF IsCancelled(c) THEN [c EXCEPT !.pc = "awaitAll"]
  ELSE IF AtLimit(c) THEN [c EXCEPT !.pc = "sleep"]
  ELSE LaunchLoopThrows([LaunchTaskThrows(c, c.i) EXCEPT !.i = @ + 1])

CatchFault_rethrows(c, t) == [c EXCEPT !.tasks[t].pc = "rejected"]

\* processDomainAsync: the catch block logs the exception and falls through to
\* the finally block
CatchFault(c, t) == [c EXCEPT !.tasks[t].pc = "returning"]

AfterProbe_resolvesAnyway(c, t, outcome) ==
  [c EXCEPT !.tasks[t].probeResult = outcome, !.tasks[t].pc = "resolving"]

\* processDomain after probeDomain returned; an exception leaves processDomain
\* for the catch and finally blocks of processDomainAsync
AfterProbe(c, t, outcome) ==
  IF outcome = "failure"
  THEN [c EXCEPT !.tasks[t].probeResult = outcome, !.tasks[t].pc = "resolving"]
  ELSE IF outcome = "fault"
  THEN CatchFault([c EXCEPT !.tasks[t].probeResult = outcome], t)
  ELSE [c EXCEPT !.tasks[t].probeResult = outcome, !.tasks[t].pc = "returning"]

ResolutionFailed_never(ips) == FALSE

\* ips.length === 0
ResolutionFailed(ips) == Len(ips) = 0

HasPrivateIP_firstOnly(ips) == Len(ips) >= 1 /\ isPrivateIP(ips[1])

HasPrivateIP_anyAddress(ips) == Len(ips) >= 1

\* ips.some((ip) => isPrivateIP(ip))
HasPrivateIP(ips) == \E k \in 1..Len(ips) : isPrivateIP(ips[k])

\* processDomain after resolveHost returned: the classification
Classify(status, domain, ips) ==
  IF ResolutionFailed(ips)
  THEN [status EXCEPT !.failedHosts = Append(@, domain)]
  ELSE IF HasPrivateIP(ips)
  THEN [status EXCEPT !.internalHosts = MapSet(@, domain, ips)]
  ELSE [status EXCEPT !.externalHosts = MapSet(@, domain, ips)]

AfterResolve(c, t, ips) ==
  [c EXCEPT !.status = Classify(c.status, c.domains[t], ips),
            !.tasks[t].resolved = TRUE,
            !.tasks[t].ips = ips,
            !.tasks[t].pc = "returning"]

\* the finally block of processDomainAsync
CountsAsCompleted_always(c) == TRUE

CountsAsCompleted(c) == ~c.cancelled

SettleTask_countsInTry(c, t) ==
  LET c1 == [c EXCEPT !.processing = SetDelete(@, c.domains[t])]
      c2 == IF CountsAsCompleted(c1) /\ c1.tasks[t].probeResult # "fault"
            THEN [c1 EXCEPT !.completed = @ + 1, !.status.completed = c1.completed + 1]
            ELSE c1
      c3 == [c2 EXCEPT !.status.current = c2.processing]
      c4 == OnProgress(c3)
  IN  [c4 EXCEPT !.tasks[t].pc = "settled"]

SettleTask_silent(c, t) ==
  LET c1 == [c EXCEPT !.processing = SetDelete(@, c.domains[t])]
      c2 == IF CountsAsCompleted(c1)
            THEN [c1 EXCEPT !.completed = @ + 1, !.status.completed = c1.completed + 1]
            ELSE c1
      c3 == [c2 EXCEPT !.status.current = c2.processing]
  IN  [c3 EXCEPT !.tasks[t].pc = "settled"]

SettleTask(c, t) ==
  LET c1 == [c EXCEPT !.processing = SetDelete(@, c.domains[t])]
      c2 == IF CountsAsCompleted(c1)
            THEN [c1 EXCEPT !.completed = @ + 1, !.status.completed = c1.completed + 1]
            ELSE c1
      c3 == [c2 EXCEPT !.status.current = c2.processing]
      c4 == OnProgress(c3)
  IN  [c4 EXCEPT !.tasks[t].pc = "settled"]

\* the finally block when the callback raises in its last statement: the
\* promise of the task is rejected
SettleTaskThrows(c, t) ==
  LET c1 == [c EXCEPT !.processing = SetDelete(@, c.domains[t])]
      c2 == IF CountsAsCompleted(c1)
            THEN [c1 EXCEPT !.completed = @ + 1, !.status.completed = c1.completed + 1]
            ELSE c1
      c3 == [c2 EXCEPT !.status.current = c2.processing]
      c4 == OnProgress(c3)
  IN  [c4 EXCEPT !.tasks[t].pc = "rejected"]

\* Promise.all(promises) is rejected when one of the promises is
AnyRejected(c) == \E t \in 1..(c.i - 1) : c.tasks[t].pc = "rejected"

\* processDomains ends with the exception, which the catch of startScan logs
RejectScan(c) == [c EXCEPT !.pc = "failed"]

AllSettled_firstOnly(c) == c.tasks[1].pc = "settled"

AllSettled_atOnce(c) == TRUE

\* Promise.all(promises): every task pushed by the for loop has settled
AllSettled(c) == \A t \in 1..(c.i - 1) : c.tasks[t].pc = "settled"

\* processDomains after Promise.all
FinalizeScan_assignsFlag(c) ==
  LET c1 == [c EXCEPT !.status.isComplete = ~c.cancelled]
      c2 == [c1 EXCEPT !.status.current = <<>>]
      c3 == OnComplete(c2, MakeResults(c2.status))
  IN  [c3 EXCEPT !.pc = "done"]

FinalizeScan(c) ==
  LET c1 == IF ~c.cancelled THEN [c EXCEPT !.status.isComplete = TRUE] ELSE c
      c2 == [c1 EXCEPT !.status.current = <<>>]
      c3 == OnComplete(c2, MakeResults(c2.status))
  IN  [c3 EXCEPT !.pc = "done"]

CancelRejected_never(c) == FALSE

\* cancelScan: the scan was cancelled before
CancelRejected(c) == c.cancelled

CancelEffect_silent(c) ==
  [c EXCEPT !.cancelled = TRUE, !.status.isComplete = TRUE, !.status.current = <<>>]

CancelEffect_resetsCompleted(c) ==
  LET c1 == [c EXCEPT !.cancelled = TRUE,
                      !.status.isComplete = TRUE,
                      !.status.current = <<>>,
                      !.status.completed = 0]
  IN  OnComplete(c1, MakeResults(c1.status))

\* cancelScan: the flags, the partial results and onComplete
CancelEffect(c) ==
  LET c1 == [c EXCEPT !.cancelled = TRUE,
                      !.status.isComplete = TRUE,
                      !.status.current = <<>>]
  IN  OnComplete(c1, MakeResults(c1.status))

ResultsAvailable_always(c) == TRUE

\* getScanResults: the scan is complete
ResultsAvailable(c) == c.status.isComplete

----------------------------------------------------------------------------
(* The scan record seen through the variables *)

Registered == DOMAIN activeScans

Scan(id) ==
  [ status        |-> activeScans[id].status,
    cancelled     |-> activeScans[id].cancelled,
    pc            |-> procs[id].pc,
    domains       |-> procs[id].domains,
    concurrency   |-> procs[id].concurrency,
    i             |-> procs[id].i,
    processing    |-> procs[id].processing,
    completed     |-> procs[id].completed,
    tasks         |-> tasks[id],
    progress      |-> <<>>,
    completions   |-> completions[id] ]

Put_everywhere(f, id, v) == [x \in (DOMAIN f) \cup {id} |-> v]

\* Map.set on the registry and the frames of one scan: the entry of id only
Put(f, id, v) == [x \in (DOMAIN f) \cup {id} |-> IF x = id THEN v ELSE f[x]]

Store(id, c) ==
  /\ activeScans' = Put(activeScans, id, [status |-> c.status, cancelled |-> c.cancelled])
  /\ procs' = Put(procs, id, [pc |-> c.pc, domains |-> c.domains,
                              concurrency |-> c.concurrency, i |-> c.i,
                              processing |-> c.processing, completed |-> c.completed])
  /\ tasks' = Put(tasks, id, c.tasks)
  /\ completions' = Put(completions, id, c.completions)
  /\ lastProgress' = c.progress

scanState == <<activeScans, procs, tasks, completions>>

\* a step that calls no onProgress and leaves every scan alone
NoScanStep == lastProgress' = <<>> /\ UNCHANGED scanState

Empty == [x \in {} |-> None]

----------------------------------------------------------------------------
(* API layer *)

Err(msg) == [kind |-> "Error", error |-> msg]
Ok(v) == [kind |-> "Ok", value |-> v]

StartValidation_noTimeoutCheck(domains, timeout, concurrency) ==
  IF Len(domains) = 0 THEN Err("No domains provided")
  ELSE IF concurrency <= 0 THEN Err("Concurrency must be greater than 0")
  ELSE Ok(None)

\* startScanAPI: the three tests before startScan is called
StartValidation(domains, timeout, concurrency) ==
  IF Len(domains) = 0 THEN Err("No domains provided")
  ELSE IF timeout <= 0 THEN Err("Timeout must be greater than 0")
  ELSE IF concurrency <= 0 THEN Err("Concurrency must be greater than 0")
  ELSE Ok(None)

----------------------------------------------------------------------------
(* Actions *)

Init ==
  /\ activeScans = Empty
  /\ procs = Empty
  /\ tasks = Empty
  /\ completions = Empty
  /\ idPool = {"scan-1"}
  /\ lastCall = NoCall
  /\ lastProgress = <<>>

\* startScanAPI, startScan and processDomains up to its first await
StartScanAPI(domains, timeout, concurrency) ==
  LET v == StartValidation(domains, timeout, concurrency) IN
  IF v.kind = "Error"
  THEN /\ lastCall' = [op |-> "startScan", id |-> None, ret |-> Undefined, api |-> v,
                        args |-> <<domains, timeout, concurrency>>]
       /\ NoScanStep
       /\ UNCHANGED idPool
  ELSE \E scanId \in idPool :
         /\ idPool' = idPool \ {scanId}
         /\ Store(scanId, LaunchLoop(NewScan(scanId, domains, concurrency)))
         /\ lastCall' = [op |-> "startScan", id |-> scanId, ret |-> Undefined,
                         api |-> Ok([scanId |-> scanId]),
                         args |-> <<domains, timeout, concurrency>>]

\* probeDomain returns to processDomain
ProbeReturn(id, t, result) ==
  /\ id \in Registered
  /\ t \in 1..Len(tasks[id])
  /\ tasks[id][t].pc = "probing"
  /\ Store(id, AfterProbe(Scan(id), t, Outcome(result)))
  /\ lastCall' = NoCall
  /\ UNCHANGED idPool

\* resolveHost returns to processDomain
ResolveReturn(id, t, ips) ==
  /\ id \in Registered
  /\ t \in 1..Len(tasks[id])
  /\ tasks[id][t].pc = "resolving"
  /\ Store(id, AfterResolve(Scan(id), t, ips))
  /\ lastCall' = NoCall
  /\ UNCHANGED idPool

\* processDomain has returned: processDomainAsync runs its finally block
TaskSettle(id, t) ==
  /\ id \in Registered
  /\ t \in 1..Len(tasks[id])
  /\ tasks[id][t].pc = "returning"
  /\ Store(id, SettleTask(Scan(id), t))
  /\ lastCall' = NoCall
  /\ UNCHANGED idPool

\* the 50 ms timer of the launcher fires
LauncherWake(id) ==
  /\ id \in Registered
  /\ procs[id].pc = "sleep"
  /\ Store(id, LaunchLoop(Scan(id)))
  /\ lastCall' = NoCall
  /\ UNCHANGED idPool

\* Promise.all(promises) is fulfilled
Finalize(id) ==
  /\ id \in Registered
  /\ procs[id].pc = "awaitAll"
  /\ AllSettled(Scan(id))
  /\ Store(id, FinalizeScan(Scan(id)))
  /\ lastCall' = NoCall
  /\ UNCHANGED idPool

\* the timer of the launcher fires and onProgress raises in the tasks started
LauncherWakeThrows(id) ==
  /\ id \in Registered
  /\ procs[id].pc = "sleep"
  /\ Store(id, LaunchLoopThrows(Scan(id)))
  /\ lastCall' = NoCall
  /\ UNCHANGED idPool

\* the finally block of a task runs and onProgress raises
TaskSettleThrows(id, t) ==
  /\ id \in Registered
  /\ t \in 1..Len(tasks[id])
  /\ tasks[id][t].pc = "returning"
  /\ Store(id, SettleTaskThrows(Scan(id), t))
  /\ lastCall' = NoCall
  /\ UNCHANGED idPool

\* Promise.all(promises) is rejected
Reject(id) ==
  /\ id \in Registered
  /\ procs[id].pc = "awaitAll"
  /\ AnyRejected(Scan(id))
  /\ Store(id, RejectScan(Scan(id)))
  /\ lastCall' = NoCall
  /\ UNCHANGED idPool

\* cancelScanAPI and cancelScan
CancelScanAPI(id) ==
  /\ UNCHANGED idPool
  /\ IF id \notin Registered \/ CancelRejected(Scan(id))
     THEN /\ lastCall' = [op |-> "cancelScan", id |-> id, ret |-> FALSE,
                          api |-> Err("Scan not found or already completed")]
          /\ NoScanStep
     ELSE /\ Store(id, CancelEffect(Scan(id)))
          /\ lastCall' = [op |-> "cancelScan", id |-> id, ret |-> TRUE,
                          api |-> Ok(None)]

\* getScanResultsAPI and getScanResults
GetScanResultsAPI(id) ==
  /\ NoScanStep
  /\ UNCHANGED idPool
  /\ IF id \notin Registered \/ ~ResultsAvailable(Scan(id))
     THEN lastCall' = [op |-> "getScanResults", id |-> id, ret |-> Undefined,
                       api |-> Err("Scan not found or not complete")]
     ELSE LET r == MakeResults(Scan(id).status) IN
          lastCall' = [op |-> "getScanResults", id |-> id, ret |-> Value(r),
                       api |-> Ok([internalCount |-> Len(r.internal),
                                   externalCount |-> Len(r.external),
                                   combinedCount |-> Len(r.combined),
                                   totalDomains  |-> r.totalDomains])]

\* Array.join: the entries of lines with sep between them; a text is the
\* sequence of its pieces
RECURSIVE Join(_, _)
Join(lines, sep) ==
  IF lines = <<>> THEN <<>>
  ELSE IF Len(lines) = 1 THEN Head(lines)
  ELSE Head(lines) \o <<sep>> \o Join(Tail(lines), sep)

RECURSIVE Urls_httpFirst(_)
Urls_httpFirst(hosts) ==
  IF hosts = <<>> THEN <<>>
  ELSE << <<"http://", Head(hosts)>>, <<"https://", Head(hosts)>> >>
         \o Urls_httpFirst(Tail(hosts))

\* the loop that pushes the two urls of each host
RECURSIVE Urls(_)
Urls(hosts) ==
  IF hosts = <<>> THEN <<>>
  ELSE << <<"https://", Head(hosts)>>, <<"http://", Head(hosts)>> >>
         \o Urls(Tail(hosts))

\* the content of an export
Content(hosts, prependProtocol) ==
  IF prependProtocol
  THEN Join(Urls(hosts), "\n")
  ELSE Join([i \in 1..Len(hosts) |-> <<hosts[i]>>], "\n")

\* downloadInternalIPsAPI, downloadExternalIPsAPI, downloadCombinedWordlistAPI
DownloadAPI(id, list, prependProtocol) ==
  /\ NoScanStep
  /\ UNCHANGED idPool
  /\ IF id \notin Registered \/ ~ResultsAvailable(Scan(id))
     THEN lastCall' = [op |-> "download", id |-> id, ret |-> Undefined,
                       args |-> <<list, prependProtocol>>,
                       api |-> Err("Scan not found or not complete")]
     ELSE LET r == MakeResults(Scan(id).status) IN
          lastCall' = [op |-> "download", id |-> id, ret |-> Value(r),
                       args |-> <<list, prependProtocol>>,
                       api |-> Ok(Content(r[list], prependProtocol))]

GetScanStatusAPI_emptyForUnknown(id) ==
  /\ NoScanStep
  /\ UNCHANGED idPool
  /\ LET status == IF id \in Registered THEN Scan(id).status ELSE NewStatus(id, <<>>) IN
     lastCall' = [op |-> "getScanStatus", id |-> id, ret |-> Value(status),
                  api |-> Ok([total         |-> status.total,
                              completed     |-> status.completed,
                              current       |-> status.current,
                              internalCount |-> Len(status.internalHosts),
                              externalCount |-> Len(status.externalHosts),
                              failedCount   |-> Len(status.failedHosts),
                              isComplete    |-> status.isComplete])]

\* getScanStatusAPI and getScanStatus
GetScanStatusAPI(id) ==
  /\ NoScanStep
  /\ UNCHANGED idPool
  /\ IF id \notin Registered
     THEN lastCall' = [op |-> "getScanStatus", id |-> id, ret |-> Undefined,
                       api |-> Err("Scan not found")]
     ELSE LET status == Scan(id).status IN
          lastCall' = [op |-> "getScanStatus", id |-> id, ret |-> Value(status),
                       api |-> Ok([total         |-> status.total,
                                   completed     |-> status.completed,
                                   current       |-> status.current,
                                   internalCount |-> Len(status.internalHosts),
                                   externalCount |-> Len(status.externalHosts),
                                   failedCount   |-> Len(status.failedHosts),
                                   isComplete    |-> status.isComplete])]

\* the arguments of startScanAPI: every valid combination, and the invalid ones
\* over the lists of at most one domain in which one argument is invalid or all are
StartInputs ==
  { x \in DomainLists \X Timeouts \X Concurrencies :
      LET bad == {k \in 1..3 : (k = 1 /\ Len(x[1]) = 0) \/ (k = 2 /\ x[2] <= 0)
                                 \/ (k = 3 /\ x[3] <= 0)}
      IN  \/ bad = {}
          \/ Len(x[1]) <= 1 /\ x[3] <= 1 /\ Cardinality(bad) \in {1, 3} }

ValidInputs == { x \in StartInputs : StartValidation(x[1], x[2], x[3]).kind = "Ok" }

ApiInputs == { x \in StartInputs : Len(x[1]) <= MaxApiLen }

\* the life of a scan: it is started with valid arguments, its tasks and its
\* launcher run, and it may be cancelled
Next ==
  \/ \E x \in ValidInputs : StartScanAPI(x[1], x[2], x[3])
  \/ \E id \in CallerIds, t \in 1..MaxLen, r \in ProbeResults : ProbeReturn(id, t, r)
  \/ \E id \in CallerIds, t \in 1..MaxLen, ips \in IpLists : ResolveReturn(id, t, ips)
  \/ \E id \in CallerIds, t \in 1..MaxLen : TaskSettle(id, t)
  \/ \E id \in CallerIds : LauncherWake(id)
  \/ \E id \in CallerIds : Finalize(id)
  \/ \E id \in CallerIds : CancelScanAPI(id)

Spec == Init /\ [][Next]_vars

\* the whole API, any call at any time, over lists of at most MaxApiLen domains
ApiNext ==
  \/ \E x \in ApiInputs : StartScanAPI(x[1], x[2], x[3])
  \/ \E id \in CallerIds, t \in 1..MaxLen, r \in ProbeResults : ProbeReturn(id, t, r)
  \/ \E id \in CallerIds, t \in 1..MaxLen, ips \in IpLists : ResolveReturn(id, t, ips)
  \/ \E id \in CallerIds, t \in 1..MaxLen : TaskSettle(id, t)
  \/ \E id \in CallerIds : LauncherWake(id)
  \/ \E id \in CallerIds : Finalize(id)
  \/ \E id \in CallerIds : CancelScanAPI(id)
  \/ \E id \in CallerIds : GetScanResultsAPI(id)
  \/ \E id \in CallerIds : GetScanStatusAPI(id)
  \/ \E id \in CallerIds, list \in DownloadLists, prependProtocol \in BOOLEAN :
       DownloadAPI(id, list, prependProtocol)

ApiSpec == Init /\ [][ApiNext]_vars

\* a step of a launched task: an awaited call returns or the continuation
\* after it runs
TaskStep ==
  \E id \in CallerIds : \E t \in 1..MaxLen :
    \/ \E result \in ProbeResults : ProbeReturn(id, t, result)
    \/ \E ips \in IpLists : ResolveReturn(id, t, ips)
    \/ TaskSettle(id, t)

\* every awaited call returns, and the event loop runs every continuation and
\* every timer that is ready
Fairness ==
  /\ WF_vars(TaskStep)
  /\ WF_vars(\E id \in CallerIds : LauncherWake(id))
  /\ WF_vars(\E id \in CallerIds : Finalize(id))

\* the start calls of the scans whose termination is checked
LiveInputs == { x \in ValidInputs : Len(x[1]) <= MaxApiLen }

LiveNext ==
  \/ \E x \in LiveInputs : StartScanAPI(x[1], x[2], x[3])
  \/ \E id \in CallerIds : \E t \in 1..MaxLen : \E result \in ProbeResults :
       ProbeReturn(id, t, result)
  \/ \E id \in CallerIds : \E t \in 1..MaxLen : \E ips \in IpLists :
       ResolveReturn(id, t, ips)
  \/ \E id \in CallerIds : \E t \in 1..MaxLen : TaskSettle(id, t)
  \/ \E id \in CallerIds : LauncherWake(id)
  \/ \E id \in CallerIds : Finalize(id)
  \/ \E id \in CallerIds : CancelScanAPI(id)

LiveSpec == Init /\ [][LiveNext]_vars /\ Fairness

\* the scans whose onProgress callback may raise
ThrowNext ==
  \/ \E x \in LiveInputs : StartScanAPI(x[1], x[2], x[3])
  \/ \E id \in CallerIds, t \in 1..MaxLen, r \in ProbeResults : ProbeReturn(id, t, r)
  \/ \E id \in CallerIds, t \in 1..MaxLen, ips \in IpLists : ResolveReturn(id, t, ips)
  \/ \E id \in CallerIds, t \in 1..MaxLen : TaskSettle(id, t)
  \/ \E id \in CallerIds, t \in 1..MaxLen : TaskSettleThrows(id, t)
  \/ \E id \in CallerIds : LauncherWake(id)
  \/ \E id \in CallerIds : LauncherWakeThrows(id)
  \/ \E id \in CallerIds : Finalize(id)
  \/ \E id \in CallerIds : Reject(id)
  \/ \E id \in CallerIds : CancelScanAPI(id)

ThrowLiveSpec ==
  Init /\ [][ThrowNext]_vars /\ Fairness /\ WF_vars(\E id \in CallerIds : Reject(id))

\* two scans side by side: the ids startScanAPI generates for them
TwoIds == {"scan-1", "scan-2"}

TwoInit ==
  /\ activeScans = Empty
  /\ procs = Empty
  /\ tasks = Empty
  /\ completions = Empty
  /\ idPool = TwoIds
  /\ lastCall = NoCall
  /\ lastProgress = <<>>

\* the start calls of the two scans: short lists without a repeated domain,
\* one task at a time
TwoInputs ==
  { x \in ValidInputs :
      /\ Len(x[1]) <= MaxApiLen
      /\ Cardinality(Elems(x[1])) = Len(x[1])
      /\ x[3] = 1 }

TwoNext ==
  \/ \E x \in TwoInputs : StartScanAPI(x[1], x[2], x[3])
  \/ \E id \in TwoIds, t \in 1..MaxApiLen, r \in ProbeResults : ProbeReturn(id, t, r)
  \/ \E id \in TwoIds, t \in 1..MaxApiLen, ips \in IpLists : ResolveReturn(id, t, ips)
  \/ \E id \in TwoIds, t \in 1..MaxApiLen : TaskSettle(id, t)
  \/ \E id \in TwoIds : LauncherWake(id)
  \/ \E id \in TwoIds : Finalize(id)
  \/ \E id \in TwoIds : CancelScanAPI(id)

TwoSpec == TwoInit /\ [][TwoNext]_vars

----------------------------------------------------------------------------
(* Reading a step *)

Status(id) == activeScans[id].status

TaskIds(id) == 1..Len(tasks[id])

Running(pc) == pc \in {"probing", "resolving", "returning"}

\* the tasks of a scan that have been launched and have not settled
InFlightTasks(id) == { t \in TaskIds(id) : Running(tasks[id][t].pc) }

\* this step is the call op(id) of the API
Calls(op, id) == lastCall'.op = op /\ lastCall'.id = id /\ vars' # vars

\* this step is the return of resolveHost to task t of scan id
Resolves(id, t) ==
  /\ id \in Registered
  /\ t \in TaskIds(id)
  /\ tasks[id][t].pc = "resolving"
  /\ tasks'[id][t].pc = "returning"

\* this step is the return of probeDomain to task t of scan id
Probes(id, t) ==
  /\ id \in Registered
  /\ t \in TaskIds(id)
  /\ tasks[id][t].pc = "probing"
  /\ tasks'[id][t].pc # "probing"

\* this step is the finally block of task t of scan id
Settles(id, t) ==
  /\ id \in Registered
  /\ t \in TaskIds(id)
  /\ tasks[id][t].pc = "returning"
  /\ tasks'[id][t].pc = "settled"

BucketsUnchanged(id) ==
  /\ Status(id).internalHosts' = Status(id).internalHosts
  /\ Status(id).externalHosts' = Status(id).externalHosts
  /\ Status(id).failedHosts' = Status(id).failedHosts

\* every entry of map m but the one of key k is in m2, at the same place
OthersKept(m, m2, k) ==
  /\ Len(m2) >= Len(m)
  /\ \A i \in 1..Len(m) : m[i][1] # k => m2[i] = m[i]
  /\ \A i \in 1..Len(m2) : i > Len(m) => m2[i][1] = k

----------------------------------------------------------------------------
(* Claims *)

\* C1: in every reachable state of an active scan, for any domain list (entries
\* need not be distinct) and any concurrency >= 1, the number of tasks launched
\* and not yet settled is at most the concurrency limit.
C1_InFlightWithinLimit ==
  \A id \in Registered :
    ~Status(id).isComplete => Cardinality(InFlightTasks(id)) <= procs[id].concurrency

\* C2: when the probe of D failed and resolveHost returns at least one address,
\* one of them private, the task maps D to the full address list in
\* internalHosts and writes neither externalHosts nor failedHosts.
C2_PrivateGoesInternal ==
  [][ \A id \in CallerIds, t \in 1..MaxLen :
        ( /\ Resolves(id, t)
          /\ tasks'[id][t].probeResult = "failure"
          /\ Len(tasks'[id][t].ips) >= 1
          /\ \E k \in 1..Len(tasks'[id][t].ips) : isPrivateIP(tasks'[id][t].ips[k]) )
        => LET D == procs[id].domains[t] IN
           /\ MapHas(Status(id).internalHosts', D)
           /\ MapGet(Status(id).internalHosts', D) = tasks'[id][t].ips
           /\ OthersKept(Status(id).internalHosts, Status(id).internalHosts', D)
           /\ Status(id).externalHosts' = Status(id).externalHosts
           /\ Status(id).failedHosts' = Status(id).failedHosts ]_vars

C2_Witness ==
  \E id \in Registered : \E t \in TaskIds(id) :
    /\ tasks[id][t].pc = "returning"
    /\ tasks[id][t].probeResult = "failure"
    /\ tasks[id][t].ips = <<PublicIP, PrivateIP>>
    /\ Status(id).internalHosts = << <<procs[id].domains[t], <<PublicIP, PrivateIP>> >> >>
    /\ Status(id).externalHosts = <<>>
    /\ Status(id).failedHosts = <<>>

\* C3: when the probe of D failed and resolveHost returns at least one address,
\* all of them public, the task maps D to the address list in externalHosts and
\* writes neither internalHosts nor failedHosts.
C3_PublicGoesExternal ==
  [][ \A id \in CallerIds, t \in 1..MaxLen :
        ( /\ Resolves(id, t)
          /\ tasks'[id][t].probeResult = "failure"
          /\ Len(tasks'[id][t].ips) >= 1
          /\ \A k \in 1..Len(tasks'[id][t].ips) : ~isPrivateIP(tasks'[id][t].ips[k]) )
        => LET D == procs[id].domains[t] IN
           /\ MapHas(Status(id).externalHosts', D)
           /\ MapGet(Status(id).externalHosts', D) = tasks'[id][t].ips
           /\ OthersKept(Status(id).externalHosts, Status(id).externalHosts', D)
           /\ Status(id).internalHosts' = Status(id).internalHosts
           /\ Status(id).failedHosts' = Status(id).failedHosts ]_vars

C3_Witness ==
  \E id \in Registered : \E t \in TaskIds(id) :
    /\ tasks[id][t].pc = "returning"
    /\ tasks[id][t].probeResult = "failure"
    /\ tasks[id][t].ips = <<PublicIP>>
    /\ Status(id).externalHosts = << <<procs[id].domains[t], <<PublicIP>> >> >>
    /\ Status(id).internalHosts = <<>>
    /\ Status(id).failedHosts = <<>>

\* the domains none of whose resolutions has returned an address so far
NeverResolved(id) ==
  { D \in Domains :
      \A t \in TaskIds(id) :
        procs[id].domains[t] = D => tasks[id][t].ips = <<>> }

\* C4: when the probe of D failed and resolveHost returns no address, the task
\* appends D to failedHosts and writes neither internalHosts nor externalHosts;
\* a domain whose resolutions returned no address is in neither map and in no
\* combined list handed out.
C4_UnresolvedGoesFailed ==
  [][ /\ \A id \in CallerIds, t \in 1..MaxLen :
           ( /\ Resolves(id, t)
             /\ tasks'[id][t].probeResult = "failure"
             /\ tasks'[id][t].resolved
             /\ Len(tasks'[id][t].ips) = 0 )
           => /\ Status(id).failedHosts' = Append(Status(id).failedHosts, procs[id].domains[t])
              /\ Status(id).internalHosts' = Status(id).internalHosts
              /\ Status(id).externalHosts' = Status(id).externalHosts
      /\ \A id \in DOMAIN activeScans' :
           \A D \in NeverResolved(id)' :
             /\ ~MapHas(Status(id).internalHosts', D)
             /\ ~MapHas(Status(id).externalHosts', D)
             /\ \A n \in 1..Len(completions'[id]) : D \notin Elems(completions'[id][n].combined)
             /\ (lastCall'.op = "getScanResults" /\ lastCall'.id = id /\ lastCall'.ret # Undefined)
                  => D \notin Elems(lastCall'.ret[1].combined) ]_vars

C4_Witness ==
  \E id \in Registered :
    /\ procs[id].domains = <<"a.example">>
    /\ tasks[id][1].probeResult = "failure"
    /\ tasks[id][1].resolved
    /\ tasks[id][1].ips = <<>>
    /\ Status(id).failedHosts = <<"a.example">>
    /\ procs[id].pc = "done"
    /\ completions[id] = << [internal |-> <<>>, external |-> <<>>,
                             combined |-> <<>>, totalDomains |-> 1] >>

\* C5: when the probe of D succeeds, the task calls no resolveHost and writes
\* none of internalHosts, externalHosts, failedHosts; when it settles in a scan
\* that is not cancelled, completed grows by exactly one.
C5_ReachableIsDiscarded ==
  [][ /\ \A id \in CallerIds, t \in 1..MaxLen :
           /\ (Probes(id, t) /\ tasks'[id][t].probeResult = "success")
                => tasks'[id][t].pc = "returning" /\ Status(id)' = Status(id)
           /\ (Settles(id, t) /\ tasks[id][t].probeResult = "success")
                => /\ BucketsUnchanged(id)
                   /\ ~activeScans[id].cancelled
                        => /\ Status(id).completed' = Status(id).completed + 1
                           /\ procs'[id].completed = procs[id].completed + 1
      /\ \A id \in DOMAIN activeScans' : \A t \in 1..Len(tasks'[id]) :
           tasks'[id][t].probeResult = "success"
             => ~tasks'[id][t].resolved /\ tasks'[id][t].pc \in {"returning", "settled"} ]_vars

C5_Witness ==
  \E id \in Registered :
    /\ procs[id].domains = <<"a.example">>
    /\ tasks[id][1].probeResult = "success"
    /\ tasks[id][1].pc = "settled"
    /\ ~activeScans[id].cancelled
    /\ Status(id).completed = 1
    /\ Status(id).internalHosts = <<>>
    /\ Status(id).externalHosts = <<>>
    /\ Status(id).failedHosts = <<>>
    /\ completions[id] = << [internal |-> <<>>, external |-> <<>>,
                             combined |-> <<>>, totalDomains |-> 1] >>

\* C6: cancelScan(id) on a registered scan that is not cancelled sets cancelled
\* and isComplete, empties current and calls onComplete once with the key lists
\* of internalHosts and externalHosts, their concatenation and total, returns
\* true, and does all of it in the call, whatever tasks are still running.
C6_CancelCompletesAtOnce ==
  [][ \A id \in CallerIds :
        (Calls("cancelScan", id) /\ id \in Registered /\ ~activeScans[id].cancelled)
        => /\ lastCall'.ret = TRUE
           /\ lastCall'.api.kind = "Ok"
           /\ activeScans'[id].cancelled
           /\ Status(id).isComplete'
           /\ Status(id).current' = <<>>
           /\ completions'[id] =
                Append(completions[id],
                       [ internal     |-> Keys(Status(id).internalHosts),
                         external     |-> Keys(Status(id).externalHosts),
                         combined     |-> Keys(Status(id).internalHosts)
                                            \o Keys(Status(id).externalHosts),
                         totalDomains |-> Status(id).total ])
           /\ tasks' = tasks ]_vars

C6_Witness ==
  \E id \in Registered :
    /\ lastCall = [op |-> "cancelScan", id |-> id, ret |-> TRUE, api |-> Ok(None)]
    /\ \E t \in TaskIds(id) : tasks[id][t].pc \in {"probing", "resolving"}
    /\ Len(completions[id]) = 1
    /\ completions[id][1].internal # <<>>
    /\ completions[id][1].external # <<>>
    /\ Status(id).isComplete

\* C7: a cancelScan(id) after a successful cancelScan(id) returns false, changes
\* no field of the ScanState and does not call onComplete.
C7_CancelIdempotent ==
  [][ \A id \in CallerIds :
        (Calls("cancelScan", id) /\ id \in Registered /\ activeScans[id].cancelled)
        => /\ lastCall'.ret = FALSE
           /\ lastCall'.api.kind = "Error"
           /\ activeScans' = activeScans
           /\ completions' = completions
           /\ procs' = procs
           /\ tasks' = tasks ]_vars

C7_Witness ==
  \E id \in Registered :
    /\ lastCall.op = "cancelScan"
    /\ lastCall.id = id
    /\ lastCall.ret = FALSE
    /\ activeScans[id].cancelled
    /\ Len(completions[id]) = 1

\* C8: cancelScan(id) on a scan that completed by itself (every task settled,
\* isComplete set by processDomains, not cancelled) is rejected: it returns
\* false (an Error of the API), leaves cancelled false and does not call
\* onComplete.
C8_CancelAfterCompletionRejected ==
  [][ \A id \in CallerIds :
        ( /\ Calls("cancelScan", id)
          /\ id \in Registered
          /\ Status(id).isComplete
          /\ ~activeScans[id].cancelled )
        => /\ lastCall'.ret = FALSE
           /\ lastCall'.api.kind = "Error"
           /\ ~activeScans'[id].cancelled
           /\ completions' = completions ]_vars

\* C9: getScanResults(id) returns undefined (an Error of the API) when id is
\* unknown or the scan is not complete, and otherwise the key lists of
\* internalHosts and externalHosts, their concatenation and the length of the
\* domain list, also for a cancelled scan; it changes no state.
C9_GetResults ==
  [][ \A id \in CallerIds :
        Calls("getScanResults", id)
        => /\ UNCHANGED <<activeScans, procs, tasks, completions, idPool>>
           /\ IF id \notin Registered \/ ~Status(id).isComplete
              THEN lastCall'.ret = Undefined /\ lastCall'.api.kind = "Error"
              ELSE /\ lastCall'.ret =
                        Value([ internal     |-> Keys(Status(id).internalHosts),
                                external     |-> Keys(Status(id).externalHosts),
                                combined     |-> Keys(Status(id).internalHosts)
                                                   \o Keys(Status(id).externalHosts),
                                totalDomains |-> Len(procs[id].domains) ])
                   /\ lastCall'.api.kind = "Ok" ]_vars

C9_Witness ==
  \E id \in Registered :
    /\ lastCall.op = "getScanResults"
    /\ lastCall.id = id
    /\ lastCall.ret # Undefined
    /\ activeScans[id].cancelled
    /\ lastCall.ret[1].internal # <<>>
    /\ lastCall.ret[1].totalDomains = MaxApiLen
    /\ Status(id).completed < MaxApiLen

\* the ScanResults handed out so far: to onComplete and by the last getScanResults
ResultsOut ==
  UNION { Elems(completions[id]) : id \in Registered }
    \cup (IF lastCall.op = "getScanResults" THEN Elems(lastCall.ret) ELSE {})

\* C10: in every ScanResults produced by getScanResults, cancelScan and
\* processDomains, internal and external are the key lists of the two maps in
\* insertion order and combined is internal followed by external, nothing
\* re-sorted and nothing removed, so |combined| = |internal| + |external|.
C10_CombinedIsConcatenation ==
  [][ /\ \A r \in ResultsOut' :
           /\ r.combined = r.internal \o r.external
           /\ Len(r.combined) = Len(r.internal) + Len(r.external)
      /\ \A id \in Registered :
           Len(completions'[id]) > Len(completions[id])
             => LET r == completions'[id][Len(completions'[id])] IN
                /\ r.internal = Keys(Status(id).internalHosts')
                /\ r.external = Keys(Status(id).externalHosts')
      /\ \A id \in CallerIds :
           (lastCall'.op = "getScanResults" /\ lastCall'.id = id /\ lastCall'.ret # Undefined)
             => /\ lastCall'.ret[1].internal = Keys(Status(id).internalHosts')
                /\ lastCall'.ret[1].external = Keys(Status(id).externalHosts') ]_vars

C10_Witness ==
  \E r \in ResultsOut :
    /\ Elems(r.internal) \cap Elems(r.external) # {}
    /\ Len(r.internal) + Len(r.external) = 2
    /\ Len(r.combined) = 2

\* the number of entries of s equal to x
Count(s, x) == Cardinality({ i \in 1..Len(s) : s[i] = x })

\* C11: once cancelScan(id) has returned true the scan is complete and every
\* later getScanResults(id) returns the lists of the classifications made up
\* to the cancellation and nothing else: no later step changes the key lists
\* of internalHosts and externalHosts, and total stays the length of the list.
C11_CancelFreezesResults ==
  [][ \A id \in Registered :
        activeScans[id].cancelled
        => /\ Status(id).isComplete
           /\ Status(id).isComplete'
           /\ Status(id).total' = Len(procs[id].domains)
           /\ Keys(Status(id).internalHosts') = Keys(Status(id).internalHosts)
           /\ Keys(Status(id).externalHosts') = Keys(Status(id).externalHosts) ]_vars

\* C12: in every reachable state, for any domain list (entries need not be
\* distinct), each domain occurs at most once in internalHosts, externalHosts
\* and failedHosts taken together.
C12_OneBucketOnce ==
  \A id \in Registered : \A D \in Domains :
    Count(Keys(Status(id).internalHosts), D)
      + Count(Keys(Status(id).externalHosts), D)
      + Count(Status(id).failedHosts, D) <= 1

\* C13: completed never decreases from one state to the next and never
\* exceeds total, cancelled or not, whatever the order of settles and cancel.
C13_CompletedMonotone ==
  [][ \A id \in Registered :
        /\ Status(id).completed' >= Status(id).completed
        /\ Status(id).completed' <= Status(id).total'
        /\ Status(id).total' = Status(id).total ]_vars

C13_Witness ==
  \E id \in Registered :
    /\ activeScans[id].cancelled
    /\ Status(id).completed = 1
    /\ Status(id).total = 3
    /\ \A t \in TaskIds(id) : tasks[id][t].pc = "settled"

\* C14: once isComplete is true, no step changes internalHosts, externalHosts
\* or failedHosts, except the write of a task that was in flight when
\* cancelScan was called: the scan is cancelled, the step is the return of
\* resolveHost to a running task, and no task is launched in a complete scan.
C14_CompleteIsFrozen ==
  [][ \A id \in Registered :
        Status(id).isComplete
        => /\ \A t \in TaskIds(id) :
                tasks[id][t].pc = "pending" => tasks'[id][t].pc = "pending"
           /\ ~BucketsUnchanged(id)
                => /\ activeScans[id].cancelled
                   /\ \E t \in TaskIds(id) : Resolves(id, t) ]_vars

C14_Witness ==
  \E id \in Registered :
    /\ activeScans[id].cancelled
    /\ Len(completions[id]) >= 1
    /\ completions[id][1].combined = <<>>
    /\ Len(Status(id).internalHosts) = 1
    /\ Len(Status(id).failedHosts) = 1

\* C15: startScanAPI with an empty domain list, timeout <= 0 or concurrency <= 0
\* returns an Error in the call and changes nothing: no scan is registered, no
\* task is launched, onProgress and onComplete are not called.
C15_InvalidStartRejected ==
  [][ ( /\ lastCall'.op = "startScan"
        /\ vars' # vars
        /\ \/ Len(lastCall'.args[1]) = 0
           \/ lastCall'.args[2] <= 0
           \/ lastCall'.args[3] <= 0 )
      => /\ lastCall'.api.kind = "Error"
         /\ UNCHANGED <<activeScans, procs, tasks, completions, idPool>>
         /\ lastProgress' = <<>> ]_vars

C15_Witness ==
  /\ lastCall.op = "startScan"
  /\ lastCall.api.kind = "Error"
  /\ lastCall.args = << <<"a.example">>, 0, 1 >>
  /\ \E id \in Registered : InFlightTasks(id) # {}

\* C16: for an id that startScan never registered, getScanStatus,
\* getScanResults and cancelScan fail (undefined or false, an Error of the
\* API), call no callback and leave the registry and every scan unchanged.
C16_UnknownIdRejected ==
  [][ \A id \in CallerIds :
        ( /\ id \notin Registered
          /\ lastCall'.op \in {"getScanStatus", "getScanResults", "cancelScan"}
          /\ lastCall'.id = id
          /\ vars' # vars )
        => /\ lastCall'.ret = IF lastCall'.op = "cancelScan" THEN FALSE ELSE Undefined
           /\ lastCall'.api.kind = "Error"
           /\ UNCHANGED <<activeScans, procs, tasks, completions, idPool>>
           /\ lastProgress' = <<>> ]_vars

C16_Witness ==
  /\ lastCall.op = "getScanStatus"
  /\ lastCall.id \notin Registered
  /\ lastCall.ret = Undefined
  /\ \E id \in Registered : InFlightTasks(id) # {}

\* the scan has run to its end: processDomains has returned, the status is
\* complete and onComplete has been called
Finished(id) ==
  /\ id \in Registered
  /\ procs[id].pc = "done"
  /\ Status(id).isComplete
  /\ Len(completions[id]) >= 1

\* C17: an exception thrown while a domain is classified stays in its task:
\* the task settles (its domain leaves the in-flight set, completed is
\* incremented when the scan is not cancelled) without writing a bucket, the
\* remaining domains are still launched and the scan still finishes with
\* onComplete called.
C17_FaultContained ==
  /\ [][ \A id \in Registered : \A t \in TaskIds(id) :
           /\ ( Probes(id, t) /\ tasks'[id][t].probeResult = "fault" )
                => BucketsUnchanged(id)
           /\ ( Settles(id, t) /\ tasks[id][t].probeResult = "fault" )
                => /\ BucketsUnchanged(id)
                   /\ procs[id].domains[t] \notin Elems(procs'[id].processing)
                   /\ Status(id).completed' = Status(id).completed
                        + (IF activeScans[id].cancelled THEN 0 ELSE 1) ]_vars
  /\ \A id \in CallerIds :
       ( id \in Registered /\ \E t \in TaskIds(id) : tasks[id][t].probeResult = "fault" )
         ~> ( /\ Finished(id)
              /\ \E t \in TaskIds(id) : tasks[id][t].probeResult = "fault"
              /\ ~activeScans[id].cancelled
                   => \A t \in TaskIds(id) : tasks[id][t].pc = "settled" )

C17_Witness ==
  \E id \in Registered :
    /\ Finished(id)
    /\ ~activeScans[id].cancelled
    /\ tasks[id][1].probeResult = "fault"
    /\ Len(procs[id].domains) = MaxApiLen
    /\ Status(id).completed = MaxApiLen
    /\ Len(Status(id).internalHosts) + Len(Status(id).externalHosts)
         + Len(Status(id).failedHosts) >= 1

\* C18: when every probe and resolve call returns and every continuation and
\* timer runs, every started scan eventually finishes (isComplete true,
\* onComplete called), cancelled or not, and a launcher waiting at the
\* concurrency limit eventually leaves its wait.
C18_ScanTerminates ==
  \A id \in CallerIds :
    /\ (id \in Registered) ~> Finished(id)
    /\ (id \in Registered /\ procs[id].pc = "sleep")
         ~> (id \in Registered /\ procs[id].pc # "sleep")

C18_Witness ==
  \E id \in Registered :
    /\ Finished(id)
    /\ ~activeScans[id].cancelled
    /\ Len(procs[id].domains) > procs[id].concurrency
    /\ \A t \in TaskIds(id) : tasks[id][t].pc = "settled"
    /\ \A t \in TaskIds(id) : tasks[id][t].probeResult # "fault"

\* the tasks launched by the step, in launch order
LaunchedNow(id) ==
  { t \in 1..Len(tasks'[id]) :
      /\ tasks'[id][t].pc # "pending"
      /\ id \in Registered => tasks[id][t].pc = "pending" }

\* C19: onProgress is called when a task starts, after its domain was added to
\* the in-flight set (the snapshot lists the domain as current), and when a
\* task settles, after its domain was removed (the snapshot does not list it),
\* whatever the outcome of the task, an exception included.
C19_ProgressAtStartAndSettle ==
  [][ \A id \in CallerIds :
        id \in DOMAIN tasks'
        => /\ LaunchedNow(id) # {}
                => /\ Len(lastProgress') = Cardinality(LaunchedNow(id))
                   /\ \A t \in LaunchedNow(id) :
                        LET k == Cardinality({ u \in LaunchedNow(id) : u <= t }) IN
                        /\ lastProgress'[k].scanId = id
                        /\ procs'[id].domains[t] \in Elems(lastProgress'[k].current)
           /\ \A t \in 1..Len(tasks'[id]) :
                Settles(id, t)
                => /\ Len(lastProgress') = 1
                   /\ lastProgress'[1].scanId = id
                   /\ procs[id].domains[t] \notin Elems(lastProgress'[1].current)
                   /\ lastProgress'[1].completed = Status(id).completed' ]_vars

C19_Witness ==
  \E id \in Registered :
    /\ tasks[id][1].probeResult = "fault"
    /\ tasks[id][1].pc = "settled"
    /\ Len(lastProgress) = 1
    /\ lastProgress[1].completed = 1
    /\ lastProgress[1].current = <<"b.example">>

\* C20: a status handed to onProgress is a snapshot: no later step changes
\* what its holder reads in any of its fields, internalHosts, externalHosts
\* and failedHosts included.
C20_SnapshotsImmutable ==
  [][ \A k \in 1..Len(lastProgress) :
        SnapshotView(lastProgress[k], activeScans')
          = SnapshotView(lastProgress[k], activeScans) ]_vars

\* String.split: the pieces of text between the occurrences of sep
RECURSIVE Split(_, _)
Split(text, sep) ==
  IF text = <<>> THEN << <<>> >>
  ELSE LET rest == Split(Tail(text), sep) IN
       IF Head(text) = sep
       THEN << <<>> >> \o rest
       ELSE << <<Head(text)>> \o Head(rest) >> \o Tail(rest)

\* the lines of an exported text; the empty text has none
TextLines(text) == IF text = <<>> THEN <<>> ELSE Split(text, "\n")

\* the stored list an export writes
StoredList(id, list) ==
  IF list = "internal" THEN Keys(Status(id).internalHosts)
  ELSE IF list = "external" THEN Keys(Status(id).externalHosts)
  ELSE Keys(Status(id).internalHosts) \o Keys(Status(id).externalHosts)

\* C21: an export of a list of N hosts returns an Error when the scan is
\* unknown or not complete; otherwise with prependProtocol it is 2N lines, for
\* each host in stored order 'https://host' then 'http://host', and without it
\* N lines, one host each, in stored order. The export changes no scan.
C21_ExportFormat ==
  [][ \A id \in CallerIds :
        Calls("download", id)
        => /\ UNCHANGED <<activeScans, procs, tasks, completions, idPool>>
           /\ IF id \notin Registered \/ ~Status(id).isComplete
              THEN lastCall'.api.kind = "Error"
              ELSE LET hosts == StoredList(id, lastCall'.args[1])
                       N     == Len(hosts)
                       lines == TextLines(lastCall'.api.value)
                   IN  /\ lastCall'.api.kind = "Ok"
                       /\ IF lastCall'.args[2]
                          THEN /\ Len(lines) = 2 * N
                               /\ \A i \in 1..N :
                                    /\ lines[2 * i - 1] = <<"https://", hosts[i]>>
                                    /\ lines[2 * i] = <<"http://", hosts[i]>>
                          ELSE /\ Len(lines) = N
                               /\ \A i \in 1..N : lines[i] = <<hosts[i]>> ]_vars

C21_Witness ==
  /\ lastCall.op = "download"
  /\ lastCall.api.kind = "Ok"
  /\ lastCall.args = <<"internal", TRUE>>
  /\ Len(lastCall.api.value) = 11
  /\ \E id \in Registered :
       Keys(Status(id).internalHosts) = <<"b.example", "a.example">>

\* C22: the order of the internal and of the external list is the order in
\* which the classifications were written: a write of a domain not yet in the
\* bucket appends it, any other step leaves the order alone, and every
\* ScanResults handed to onComplete lists the buckets in that order.
C22_WriteOrder ==
  [][ \A id \in Registered :
        LET wrote(old, new) ==
              \/ new = old
              \/ \E t \in TaskIds(id) :
                   /\ Resolves(id, t)
                   /\ procs[id].domains[t] \notin Elems(old)
                   /\ new = Append(old, procs[id].domains[t])
        IN  /\ wrote(Keys(Status(id).internalHosts), Keys(Status(id).internalHosts'))
            /\ wrote(Keys(Status(id).externalHosts), Keys(Status(id).externalHosts'))
            /\ \A k \in 1..Len(completions'[id]) :
                 k > Len(completions[id])
                 => /\ completions'[id][k].internal = Keys(Status(id).internalHosts')
                    /\ completions'[id][k].external = Keys(Status(id).externalHosts') ]_vars

C22_Witness ==
  \E id \in Registered :
    /\ procs[id].domains = <<"a.example", "b.example", "a.example">>
    /\ Keys(Status(id).externalHosts) = <<"b.example", "a.example">>
    /\ Len(completions[id]) = 1
    /\ completions[id][1].external = <<"b.example", "a.example">>
    /\ \A t \in TaskIds(id) : tasks[id][t].probeResult = "failure"

\* C23: in every reachable state and in every progress snapshot the current
\* list holds at most concurrency domains.
C23_CurrentWithinLimit ==
  /\ \A id \in Registered : Len(Status(id).current) <= procs[id].concurrency
  /\ \A k \in 1..Len(lastProgress) :
       Len(lastProgress[k].current) <= procs[lastProgress[k].scanId].concurrency

C23_Witness ==
  \E k \in 1..Len(lastProgress) :
    /\ Len(lastProgress[k].current) = MaxConcurrency
    /\ procs[lastProgress[k].scanId].concurrency = MaxConcurrency
    /\ lastProgress[k].completed = 1
    /\ \E t \in TaskIds(lastProgress[k].scanId) :
         tasks[lastProgress[k].scanId][t].pc = "settled"

\* C24: a task whose probe or resolve call returns after the scan was
\* cancelled ignores the result: that step writes nothing to internalHosts,
\* externalHosts or failedHosts.
C24_ResultIgnoredAfterCancel ==
  [][ \A id \in Registered : \A t \in TaskIds(id) :
        ( activeScans[id].cancelled /\ (Probes(id, t) \/ Resolves(id, t)) )
        => BucketsUnchanged(id) ]_vars

\* C25: once a scan is cancelled no task is launched for it: no pending task
\* leaves its state, no domain enters the in-flight set and no snapshot lists
\* a domain that was not in flight, even with domains left and slots free.
C25_NoLaunchAfterCancel ==
  [][ \A id \in Registered :
        activeScans[id].cancelled
        => /\ \A t \in TaskIds(id) :
                tasks[id][t].pc = "pending" => tasks'[id][t].pc = "pending"
           /\ Elems(procs'[id].processing) \subseteq Elems(procs[id].processing)
           /\ \A k \in 1..Len(lastProgress') :
                lastProgress'[k].scanId = id
                => Elems(lastProgress'[k].current) \subseteq Elems(procs[id].processing) ]_vars

C25_Witness ==
  \E id \in Registered :
    /\ activeScans[id].cancelled
    /\ procs[id].pc = "done"
    /\ procs[id].processing = <<>>
    /\ procs[id].concurrency = 1
    /\ tasks[id][1].pc = "settled"
    /\ \A t \in TaskIds(id) : t > 1 => tasks[id][t].pc = "pending"
    /\ Len(procs[id].domains) = MaxLen

\* C26: when startScan returns, the scan is registered with completed = 0 and
\* an empty current list, no probe has been issued and onProgress has not
\* been called: every task is launched by a later step.
C26_StartReturnsBeforeProcessing ==
  [][ \A id \in CallerIds :
        ( Calls("startScan", id) /\ lastCall'.api.kind = "Ok" )
        => /\ id \in DOMAIN activeScans'
           /\ Status(id).completed' = 0
           /\ Status(id).current' = <<>>
           /\ lastProgress' = <<>>
           /\ \A t \in 1..Len(tasks'[id]) : tasks'[id][t].pc = "pending" ]_vars

\* C27: in a scan that is not cancelled, isComplete is true and onComplete
\* has been called only when every domain of the list was launched and every
\* task has settled, and the current list is then empty.
C27_FinalizedAfterAllSettled ==
  \A id \in Registered :
    ( ~activeScans[id].cancelled /\ (Status(id).isComplete \/ completions[id] # <<>>) )
    => /\ \A t \in TaskIds(id) : tasks[id][t].pc = "settled"
       /\ Len(tasks[id]) = Len(procs[id].domains)
       /\ Status(id).isComplete
       /\ Len(completions[id]) = 1
       /\ Status(id).current = <<>>

C27_Witness ==
  \E id \in Registered :
    /\ ~activeScans[id].cancelled
    /\ Status(id).isComplete
    /\ Len(procs[id].domains) = MaxLen
    /\ procs[id].concurrency = MaxConcurrency
    /\ Len(completions[id]) = 1
    /\ completions[id][1].internal = <<"a.example">>
    /\ completions[id][1].external = <<"b.example">>

\* C28: in a cancelled scan completed never changes: a task that settles
\* after the cancellation takes its domain out of the processing set and
\* leaves completed alone.
C28_CompletedFrozenAfterCancel ==
  [][ \A id \in Registered :
        activeScans[id].cancelled
        => /\ Status(id).completed' = Status(id).completed
           /\ procs'[id].completed = procs[id].completed
           /\ \A t \in TaskIds(id) :
                Settles(id, t)
                => procs[id].domains[t] \notin Elems(procs'[id].processing) ]_vars

C28_Witness ==
  \E id \in Registered :
    /\ activeScans[id].cancelled
    /\ Status(id).completed = 0
    /\ procs[id].processing = <<>>
    /\ Len(lastProgress) = 1
    /\ Cardinality({ t \in TaskIds(id) : tasks[id][t].pc = "settled" }) = MaxConcurrency
    /\ Len(Status(id).failedHosts) = MaxConcurrency

\* C29: the ScanResults handed to onComplete is a copy: no later step, a late
\* write of a task in flight after the cancellation included, changes what
\* its holder reads in internal, external, combined or totalDomains.
C29_ResultsAreCopies ==
  [][ \A id \in Registered : \A k \in 1..Len(completions[id]) :
        /\ k <= Len(completions'[id])
        /\ ResultsView(completions'[id][k], Status(id)')
             = ResultsView(completions[id][k], Status(id)) ]_vars

C29_Witness ==
  \E id \in Registered :
    /\ activeScans[id].cancelled
    /\ Len(completions[id]) >= 1
    /\ completions[id][1].external = <<>>
    /\ completions[id][1].combined = <<>>
    /\ Keys(Status(id).externalHosts) = <<"a.example">>

\* C30: the step after a failed probe is the same for every kind of failure:
\* whatever error the result carries, the scan state after the return of the
\* probe is the one reached for any other failed result.
C30_FailureKindIgnored ==
  [][ \A id \in Registered : \A t \in TaskIds(id) :
        ( Probes(id, t) /\ tasks'[id][t].probeResult = "failure" )
        => \A r \in ProbeResults :
             ( r # Thrown /\ ~r.success )
             => LET c == AfterProbe(Scan(id), t, Outcome(r)) IN
                /\ activeScans'[id] = [status |-> c.status, cancelled |-> c.cancelled]
                /\ tasks'[id] = c.tasks
                /\ procs'[id].processing = c.processing
                /\ completions'[id] = c.completions
                /\ lastProgress' = c.progress ]_vars

C30_Witness ==
  \E id \in Registered :
    /\ Len(tasks[id]) = MaxConcurrency
    /\ \A t \in TaskIds(id) : tasks[id][t].probeResult = "failure"
    /\ \A t \in TaskIds(id) : tasks[id][t].pc = "resolving"

\* C31: onComplete is called exactly once for a scan, whatever the order of
\* start, settles and cancel: in every state it has been called at most once,
\* and exactly once when processDomains has returned.
C31_OnCompleteOnce ==
  \A id \in Registered :
    /\ Len(completions[id]) <= 1
    /\ procs[id].pc = "done" => Len(completions[id]) = 1

\* C32: no onProgress is called for a scan after its isComplete became true
\* (after its onComplete was called), tasks in flight at the cancellation
\* included.
C32_NoProgressAfterComplete ==
  [][ \A id \in Registered :
        ( Status(id).isComplete \/ completions[id] # <<>> )
        => \A k \in 1..Len(lastProgress') : lastProgress'[k].scanId # id ]_vars

\* C33: in every reachable state isComplete implies that the current list of
\* the status is empty, also while the tasks in flight at a cancellation
\* settle.
C33_CompleteHasNoCurrent ==
  \A id \in Registered : Status(id).isComplete => Status(id).current = <<>>

\* C34: in every state between two jobs of the event loop (no task is between
\* the return of processDomain and its finally block) the buckets hold at
\* most completed entries: |internal| + |external| + |failed| <= completed.
C34_BucketsWithinCompleted ==
  \A id \in Registered :
    ( \A t \in TaskIds(id) : tasks[id][t].pc # "returning" )
    => Len(Status(id).internalHosts) + Len(Status(id).externalHosts)
         + Len(Status(id).failedHosts) <= Status(id).completed

\* C35: in every state of an active scan (not complete, not cancelled) the
\* current list is exactly the set of the domains of the tasks launched and
\* not yet settled, whether or not the list repeats a domain.
C35_CurrentIsInFlight ==
  \A id \in Registered :
    ( ~Status(id).isComplete /\ ~activeScans[id].cancelled )
    => Elems(Status(id).current) = { procs[id].domains[t] : t \in InFlightTasks(id) }

\* C37: in every reachable state isComplete and not cancelled imply
\* completed = total: a scan that ends without a cancellation has counted each
\* entry of the list once, reachable, classified, failed or faulted.
C37_CompleteCountsAll ==
  \A id \in Registered :
    ( Status(id).isComplete /\ ~activeScans[id].cancelled )
    => /\ Status(id).completed = Status(id).total
       /\ Status(id).total = Len(procs[id].domains)
       /\ procs[id].completed = Status(id).completed

C37_Witness ==
  \E id \in Registered :
    /\ Status(id).isComplete
    /\ ~activeScans[id].cancelled
    /\ Status(id).completed = MaxLen
    /\ tasks[id][1].probeResult = "fault"
    /\ tasks[id][2].probeResult = "success"
    /\ tasks[id][3].probeResult = "failure"
    /\ procs[id].domains[3] = procs[id].domains[1]

\* C39: isComplete and cancelled latch: no step sets either back to false.
C39_FlagsLatch ==
  [][ \A id \in Registered :
        /\ Status(id).isComplete => Status(id).isComplete'
        /\ activeScans[id].cancelled => activeScans'[id].cancelled ]_vars

C39_Witness ==
  \E id \in Registered :
    /\ activeScans[id].cancelled
    /\ Status(id).isComplete
    /\ procs[id].pc = "done"
    /\ Len(completions[id]) = 2
    /\ \A t \in TaskIds(id) : tasks[id][t].pc = "settled"

\* the step changes the scan id: its ScanState, its launcher, its tasks or the
\* calls of its onComplete
Changes(id) ==
  \/ activeScans'[id] # activeScans[id]
  \/ procs'[id] # procs[id]
  \/ tasks'[id] # tasks[id]
  \/ completions'[id] # completions[id]

\* C36: with two scans registered, a step of one of them (task start, probe
\* or resolve return, settle, cancel, finalization) leaves the ScanState, the
\* launcher and the tasks of the other unchanged and calls onProgress and
\* onComplete of its own scan only.
C36_ScansAreIndependent ==
  [][ \A id \in Registered : \A other \in Registered \ {id} :
        ( Changes(id) \/ (lastCall'.op = "cancelScan" /\ lastCall'.id = id) )
        => /\ ~Changes(other)
           /\ \A k \in 1..Len(lastProgress') : lastProgress'[k].scanId = id ]_vars

C36_Witness ==
  /\ Registered = TwoIds
  /\ activeScans["scan-1"].cancelled
  /\ Status("scan-1").failedHosts = <<"a.example">>
  /\ ~activeScans["scan-2"].cancelled
  /\ Status("scan-2").isComplete
  /\ Status("scan-2").completed = MaxApiLen
  /\ Keys(Status("scan-2").internalHosts) = <<"b.example">>
  /\ Len(completions["scan-1"]) = 2
  /\ Len(completions["scan-2"]) = 1

\* C38: when onProgress raises at the start or at the settle of a task and
\* every probe and resolve call returns, the scan still gets isComplete true
\* and onComplete called, and from some moment on no domain is left in the
\* processing set.
C38_ProgressFaultTolerated ==
  \A id \in CallerIds :
    /\ (id \in Registered)
         ~> (id \in Registered /\ Status(id).isComplete /\ completions[id] # <<>>)
    /\ [](id \in Registered => <>[](id \in Registered /\ procs[id].processing = <<>>))

====
